---- MODULE Spec2Model ----
(***************************************************************************)
(* Model of i10_bluesky/plans/utils/alignments.py: the PeakStats wrapper   *)
(* scan_and_move_to_fit_pos, the extractor get_stat_loc and the plan       *)
(* align_slit_with_look_up, run as message generators under a RunEngine.   *)
(*                                                                         *)
(* Numbers.  Slit sizes are held in tenths of a micrometre (size 100 is    *)
(* 1000, size 100.5 is 1005).  Positions are held in ticks of 1/50000 of   *)
(* a motor unit, so that size / 5000 is exactly `tenths` ticks and         *)
(* size / 1000 * 3 is exactly 15 * tenths ticks (5.0 is 250000 ticks).     *)
(* Text is held as sequences of one-character strings.                     *)
(***************************************************************************)
EXTENDS Integers, Sequences, FiniteSets, TLC

VARIABLES pc, mode, calls, slit_table, table0, size, loc, win, rc,
          ps, motorPos, trace, fit, err,
          errmsg, raised, tableInit, okKeys, prev

vars == <<pc, mode, calls, slit_table, table0, size, loc, win, rc,
          ps, motorPos, trace, fit, err,
          errmsg, raised, tableInit, okKeys, prev>>

\* -------------------------------------------------------------------------
\* Bounds
\* -------------------------------------------------------------------------
MaxCalls == 2
MaxSamples == 3

\* -------------------------------------------------------------------------
\* Python values
\* -------------------------------------------------------------------------
PyFloat(n) == [kind |-> "float", v |-> n, items |-> <<>>]
PyInt(n) == [kind |-> "int", v |-> n, items |-> <<>>]
PyTuple(s) == [kind |-> "tuple", v |-> 0, items |-> s]
PyStr == [kind |-> "str", v |-> 0, items |-> <<>>]
None == [kind |-> "None", v |-> 0, items |-> <<>>]

\* bool(x) of Python: None, 0, 0.0 and the empty tuple are falsy.
Truthy(x) ==
  CASE x.kind = "None" -> FALSE
    [] x.kind \in {"float", "int"} -> x.v # 0
    [] x.kind = "tuple" -> Len(x.items) > 0
    [] OTHER -> TRUE

\* -------------------------------------------------------------------------
\* str(int(size)) and str(size)
\* -------------------------------------------------------------------------
DigitChars == <<"0", "1", "2", "3", "4", "5", "6", "7", "8", "9">>

RECURSIVE IntToStr(_)
IntToStr(n) ==
  IF n < 10 THEN <<DigitChars[n + 1]>>
  ELSE IntToStr(n \div 10) \o <<DigitChars[(n % 10) + 1]>>

\* a size is an int or a float of the (non-negative) value tenths / 10
SizeInt(n) == [isFloat |-> FALSE, tenths |-> 10 * n]
SizeFloat(t) == [isFloat |-> TRUE, tenths |-> t]

\* str(int(size)): int() truncates
StrIntSize(s) == IntToStr(s.tenths \div 10)

\* str(size): an int prints its digits, a float prints with its fraction
StrSize(s) ==
  IF s.isFloat
  THEN IntToStr(s.tenths \div 10) \o <<".">> \o <<DigitChars[(s.tenths % 10) + 1]>>
  ELSE IntToStr(s.tenths \div 10)

\* -------------------------------------------------------------------------
\* PeakPosition
\* -------------------------------------------------------------------------
PeakPosition ==
  { <<"stats", "com">>, <<"stats", "cen">>, <<"stats", "min">>, <<"stats", "max">>,
    <<"derivative_stats", "com">>, <<"derivative_stats", "cen">>,
    <<"derivative_stats", "min">>, <<"derivative_stats", "max">> }

\* -------------------------------------------------------------------------
\* get_stat_loc
\* -------------------------------------------------------------------------
Raise(e) == [ok |-> FALSE, val |-> None, err |-> e]
Return(x) == [ok |-> TRUE, val |-> x, err |-> "none"]

\* the variant without the fwhm test
get_stat_loc_nofwhm(p, l) ==
  LET peak_stat == p[l[1]]
  IN IF ~Truthy(peak_stat)
     THEN Raise("ValueError: check devices name")
     ELSE LET stat_pos == peak_stat[l[2]]
          IN CASE stat_pos.kind = "float" -> Return(stat_pos)
               [] stat_pos.kind = "tuple" /\ Len(stat_pos.items) > 0 ->
                    Return(stat_pos.items[1])
               [] stat_pos.kind = "tuple" /\ Len(stat_pos.items) = 0 ->
                    Raise("IndexError")
               [] OTHER -> Raise("TypeError")

\* the variant that only rejects a fwhm that is None
get_stat_loc_isnone(p, l) ==
  LET peak_stat == p[l[1]]
  IN IF ~Truthy(peak_stat)
     THEN Raise("ValueError: check devices name")
     ELSE IF peak_stat["fwhm"] = None
     THEN Raise("ValueError: no peak within scan range")
     ELSE LET stat_pos == peak_stat[l[2]]
          IN CASE stat_pos.kind = "float" -> Return(stat_pos)
               [] stat_pos.kind = "tuple" /\ Len(stat_pos.items) > 0 ->
                    Return(stat_pos.items[1])
               [] stat_pos.kind = "tuple" /\ Len(stat_pos.items) = 0 ->
                    Raise("IndexError")
               [] OTHER -> Raise("TypeError")

get_stat_loc(p, l) ==
  LET peak_stat == p[l[1]]
  IN IF ~Truthy(peak_stat)
     THEN Raise("ValueError: check devices name")
     ELSE IF ~Truthy(peak_stat["fwhm"])
     THEN Raise("ValueError: no peak within scan range")
     ELSE LET stat_pos == peak_stat[l[2]]
          IN CASE stat_pos.kind = "float" -> Return(stat_pos)
               [] stat_pos.kind = "tuple" /\ Len(stat_pos.items) > 0 ->
                    Return(stat_pos.items[1])
               [] stat_pos.kind = "tuple" /\ Len(stat_pos.items) = 0 ->
                    Raise("IndexError")
               [] OTHER -> Raise("TypeError")

\* -------------------------------------------------------------------------
\* MotorTable.model_validate and cal_range_num
\* -------------------------------------------------------------------------
IsNumericString(k) ==
  /\ Len(k) > 0
  /\ \A i \in 1..Len(k) : k[i] \in {DigitChars[j] : j \in 1..10} \cup {"."}
  /\ \E i \in 1..Len(k) : k[i] # "."
  /\ Cardinality({i \in 1..Len(k) : k[i] = "."}) <= 1

MotorTableValid(t) ==
  /\ \A k \in DOMAIN t : IsNumericString(k)
  /\ \A k \in DOMAIN t : t[k].kind \in {"float", "int"}

\* (start, end, number of steps) around cen; a zero step size divides by zero
cal_range_num(cen, range, stepsize) ==
  IF stepsize = 0
  THEN [ok |-> FALSE, start |-> 0, end |-> 0, num |-> 0]
  ELSE [ok |-> TRUE, start |-> cen - range, end |-> cen + range,
        num |-> (2 * range) \div stepsize]

\* -------------------------------------------------------------------------
\* PeakStats: what the collector holds after the stop document
\* -------------------------------------------------------------------------
Shapes == <<"good", "fwhmNone", "fwhmZero", "fwhmEmpty", "intField",
            "emptyField", "absent">>

\* the namedtuple of one group, peak at x, lowest point at x0
StatsOf(shape, x, x0) ==
  IF shape = "absent" THEN None
  ELSE [kind |-> "Stats",
        com |-> IF shape = "intField" THEN PyInt(x) ELSE PyFloat(x),
        cen |-> IF shape = "intField" THEN PyInt(x) ELSE PyFloat(x),
        min |-> IF shape = "emptyField" THEN PyTuple(<<>>)
                ELSE PyTuple(<<PyFloat(x0), PyFloat(0)>>),
        max |-> IF shape = "emptyField" THEN PyTuple(<<>>)
                ELSE PyTuple(<<PyFloat(x), PyFloat(1)>>),
        fwhm |-> CASE shape = "fwhmNone" -> None
                   [] shape = "fwhmZero" -> PyFloat(0)
                   [] shape = "fwhmEmpty" -> PyTuple(<<>>)
                   [] OTHER -> PyFloat(1)]

\* where among the n samples of a scan the collector may find the peak
PeakIndices(n) == {1, n}

\* PeakStats(...) as constructed: nothing subscribed, nothing computed
NewPeakStats ==
  [subscribed |-> FALSE, xs |-> <<>>, stats |-> None, derivative_stats |-> None]

NoPeakStats ==
  [subscribed |-> FALSE, xs |-> <<>>, stats |-> None, derivative_stats |-> None]

\* -------------------------------------------------------------------------
\* Inputs
\* -------------------------------------------------------------------------
Sizes == { SizeInt(100), SizeFloat(1000), SizeFloat(1005), SizeInt(50),
           SizeFloat(500), SizeInt(999), SizeInt(0) }

K100 == <<"1", "0", "0">>
K100p0 == <<"1", "0", "0", ".", "0">>
K50 == <<"5", "0">>
K0 == <<"0">>
Kabc == <<"a", "b", "c">>

InitTables ==
  { (K100 :> PyFloat(250000)) @@ (K50 :> PyFloat(100000)),
    (K100 :> PyFloat(250000)) @@ (K100p0 :> PyFloat(350000))
       @@ (K0 :> PyFloat(50000)),
    (Kabc :> PyFloat(50000)),
    (K100 :> PyStr) }

\* windows of the direct calls of the decorated scans
DirectWindows == { [start |-> 0, end |-> 20000, num |-> 5] }

\* how far from the commanded position the motor may settle, in ticks
SettleErrors == {0, 1}

NoWin == [start |-> 0, end |-> 0, num |-> 0]
NoRc == [called |-> FALSE, cen |-> 0, range |-> 0, size |-> 0]
NoSize == SizeInt(0)
NoLoc == <<"none", "none">>
NoFit == [ok |-> FALSE, val |-> None, err |-> "not run"]

Ev(op, arg) == [op |-> op, arg |-> arg]

\* the text of f"Size of {size} is not in {slit_table.keys}": the size as
\* str(size), and the keys that the second field prints.  slit_table.keys is
\* the bound method, not its result, so its text names no key of the table.
KeysShown(t) == {k \in DOMAIN t : FALSE}

SizeNotInTableMsg(s, t) == [size |-> StrSize(s), keys |-> KeysShown(t)]

NoMsg == [size |-> <<>>, keys |-> {}]

\* what is remembered of the call before this one
NoPrev == [ok |-> FALSE, size |-> NoSize, readback |-> 0, xs |-> <<>>]

\* -------------------------------------------------------------------------
\* Initial state
\* -------------------------------------------------------------------------
Init ==
  /\ pc = "idle"
  /\ mode = "none"
  /\ calls = 0
  /\ slit_table \in InitTables
  /\ table0 = slit_table
  /\ size = NoSize
  /\ loc = NoLoc
  /\ win = NoWin
  /\ rc = NoRc
  /\ ps = NoPeakStats
  /\ motorPos = 0
  /\ trace = <<>>
  /\ fit = NoFit
  /\ err = "none"
  /\ errmsg = NoMsg
  /\ raised = "none"
  /\ tableInit = slit_table
  /\ okKeys = {}
  /\ prev = NoPrev

\* -------------------------------------------------------------------------
\* scan_and_move_to_fit_pos.inner, up to its first message: the collector is
\* made and subs_wrapper subscribes it before the wrapped scan starts
\* -------------------------------------------------------------------------
\* the variant that drives the motor to the start before anything else
InnerStart_MoveFirst(w) ==
  /\ win' = w
  /\ ps' = [NewPeakStats EXCEPT !.subscribed = TRUE]
  /\ trace' = <<Ev("subscribe", 0), Ev("set", w.start)>>
  /\ fit' = NoFit
  /\ err' = "none"
  /\ pc' = "scan"

\* the variant whose collector is made once and still holds the samples of
\* the invocation before
InnerStart_SharedCollector(w) ==
  /\ win' = w
  /\ ps' = [NewPeakStats EXCEPT !.subscribed = TRUE, !.xs = prev.xs]
  /\ trace' = <<Ev("subscribe", 0)>>
  /\ fit' = NoFit
  /\ err' = "none"
  /\ pc' = "scan"

InnerStart(w) ==
  /\ win' = w
  /\ ps' = [NewPeakStats EXCEPT !.subscribed = TRUE]
  /\ trace' = <<Ev("subscribe", 0)>>
  /\ fit' = NoFit
  /\ err' = "none"
  /\ pc' = "scan"

\* step_scan_and_move_fit / fast_scan_and_move_fit called by the user
CallStepScan ==
  /\ pc = "idle"
  /\ calls < MaxCalls
  /\ \E w \in DirectWindows, l \in PeakPosition :
       /\ mode' = "step"
       /\ loc' = l
       /\ InnerStart(w)
  /\ table0' = slit_table
  /\ UNCHANGED <<calls, slit_table, size, rc, motorPos>>
  /\ UNCHANGED <<errmsg, raised, tableInit, okKeys, prev>>

CallFastScan ==
  /\ pc = "idle"
  /\ calls < MaxCalls
  /\ \E w \in DirectWindows, l \in PeakPosition :
       /\ mode' = "fast"
       /\ loc' = l
       /\ InnerStart([w EXCEPT !.num = 0])
  /\ table0' = slit_table
  /\ UNCHANGED <<calls, slit_table, size, rc, motorPos>>
  /\ UNCHANGED <<errmsg, raised, tableInit, okKeys, prev>>

\* -------------------------------------------------------------------------
\* align_slit_with_look_up, up to its first message
\* -------------------------------------------------------------------------
\* the key the centre of the scan is read from
CentreKey(s) == StrSize(s)

\* the variant that stores under str(float(size))
UpdateKey_AsFloat(s) ==
  IntToStr(s.tenths \div 10) \o <<".">> \o <<DigitChars[(s.tenths % 10) + 1]>>

\* the key the readback is stored under
UpdateKey(s) == StrSize(s)

AlignFail(e) ==
  /\ pc' = "failed"
  /\ err' = e
  /\ trace' = <<>>
  /\ win' = NoWin
  /\ ps' = NoPeakStats
  /\ fit' = NoFit

\* the variant that looks the size up without validating the table first
AlignPrecheck_novalidate(t, s) ==
  IF StrIntSize(s) \notin DOMAIN t THEN "ValueError: size not in table"
  ELSE IF CentreKey(s) \notin DOMAIN t THEN "KeyError"
  ELSE "none"

\* what stops the plan before the range is calculated
AlignPrecheck(t, s) ==
  IF ~MotorTableValid(t) THEN "ValidationError"
  ELSE IF StrIntSize(s) \notin DOMAIN t THEN "ValueError: size not in table"
  ELSE IF CentreKey(s) \notin DOMAIN t THEN "KeyError"
  ELSE "none"

CallAlign ==
  /\ pc = "idle"
  /\ calls < MaxCalls
  /\ \E s \in Sizes, l \in PeakPosition :
       /\ mode' = "align"
       /\ size' = s
       /\ loc' = l
       /\ table0' = slit_table
       /\ errmsg' = IF AlignPrecheck(slit_table, s) = "ValueError: size not in table"
                    THEN SizeNotInTableMsg(s, slit_table)
                    ELSE NoMsg
       /\ IF AlignPrecheck(slit_table, s) # "none"
          THEN AlignFail(AlignPrecheck(slit_table, s)) /\ rc' = NoRc
          ELSE LET cen == slit_table[CentreKey(s)].v
                   range == 15 * s.tenths
                   stepsize == s.tenths
                   r == cal_range_num(cen, range, stepsize)
               IN /\ rc' = [called |-> TRUE, cen |-> cen, range |-> range,
                            size |-> stepsize]
                  /\ IF r.ok
                     THEN InnerStart([start |-> r.start, end |-> r.end,
                                      num |-> r.num])
                     ELSE AlignFail("ZeroDivisionError")
  /\ UNCHANGED <<calls, slit_table, motorPos>>
  /\ UNCHANGED <<raised, tableInit, okKeys, prev>>

\* -------------------------------------------------------------------------
\* the wrapped scan, running under the subscription
\* -------------------------------------------------------------------------
SamplePos(w, k) == w.start + ((k - 1) * (w.end - w.start)) \div (MaxSamples - 1)

\* one point of the scan: the motor is driven there and an event is emitted
ScanSample ==
  /\ pc = "scan"
  /\ Len(ps.xs) < MaxSamples
  /\ LET x == SamplePos(win, Len(ps.xs) + 1)
     IN /\ motorPos' = x
        /\ ps' = IF ps.subscribed THEN [ps EXCEPT !.xs = Append(@, x)] ELSE ps
        /\ trace' = Append(trace, Ev("sample", x))
  /\ UNCHANGED <<pc, mode, calls, slit_table, table0, size, loc, win, rc, fit, err>>
  /\ UNCHANGED <<errmsg, raised, tableInit, okKeys, prev>>

\* subs_wrapper's finalize: the collector is unsubscribed on the way out
Unsubscribed(p) == [p EXCEPT !.subscribed = FALSE]

UnsubscribeMsgs == <<Ev("unsubscribe", 0)>>

\* the variant that subscribes without a finalizer
ScanRaise_NoFinalize ==
  /\ pc = "scan"
  /\ pc' = "failed"
  /\ raised' = "ScanError"
  /\ err' = raised'
  /\ UNCHANGED <<mode, calls, slit_table, table0, size, loc, win, rc, ps,
                 motorPos, trace, fit>>
  /\ UNCHANGED <<errmsg, tableInit, okKeys, prev>>

\* the scan raises, or the plan is cancelled while the scan runs
ScanRaise ==
  /\ pc = "scan"
  /\ ps' = Unsubscribed(ps)
  /\ trace' = trace \o UnsubscribeMsgs
  /\ pc' = "failed"
  /\ raised' = "ScanError"
  /\ err' = raised'
  /\ UNCHANGED <<mode, calls, slit_table, table0, size, loc, win, rc, motorPos, fit>>
  /\ UNCHANGED <<errmsg, tableInit, okKeys, prev>>

\* the scan ends: the stop document lets the collector compute its result,
\* then subs_wrapper unsubscribes it
ScanComplete ==
  /\ pc = "scan"
  /\ Len(ps.xs) = MaxSamples
  /\ \E i \in 1..Len(Shapes), j \in PeakIndices(Len(ps.xs)) :
       LET x == ps.xs[j]
           dx == ps.xs[(j % Len(ps.xs)) + 1]
           x0 == ps.xs[1]
       IN ps' = [Unsubscribed(ps) EXCEPT
                   !.stats = StatsOf(Shapes[i], x, x0),
                   !.derivative_stats =
                      StatsOf(Shapes[((i + 1) % Len(Shapes)) + 1], dx, x0)]
  /\ trace' = Append(trace, Ev("scan_done", 0)) \o UnsubscribeMsgs
  /\ pc' = "scanned"
  /\ UNCHANGED <<mode, calls, slit_table, table0, size, loc, win, rc, motorPos, fit, err>>
  /\ UNCHANGED <<errmsg, raised, tableInit, okKeys, prev>>

\* -------------------------------------------------------------------------
\* after the scan: get_stat_loc, then abs_set(motor, peak_position, wait=True)
\* -------------------------------------------------------------------------
\* the target of the set message that is being waited for
SetTarget == trace[Len(trace)].arg

\* the position the plan is at once the wait of abs_set has returned
AfterMove == IF mode = "align" THEN "read" ELSE "done"

\* t[k] = x of a dict: the key is added when it is new
Stored(t, k, x) == [kk \in (DOMAIN t) \cup {k} |-> IF kk = k THEN x ELSE t[kk]]

\* the variant with abs_set(..., wait=False)
ExtractAndSet_nowait ==
  /\ pc = "scanned"
  /\ LET r == get_stat_loc(ps, loc)
     IN /\ fit' = r
        /\ IF r.ok
           THEN /\ trace' = trace \o <<Ev("extract", r.val.v), Ev("set", r.val.v)>>
                /\ pc' = AfterMove
                /\ err' = err
           ELSE /\ trace' = trace
                /\ pc' = "failed"
                /\ err' = r.err
  /\ UNCHANGED <<mode, calls, slit_table, table0, size, loc, win, rc, ps, motorPos>>
  /\ UNCHANGED <<errmsg, raised, tableInit, okKeys, prev>>

\* the variant that stores the fitted position as soon as it is known
ExtractAndSet_StoreEarly ==
  /\ pc = "scanned"
  /\ LET r == get_stat_loc(ps, loc)
     IN /\ fit' = r
        /\ IF r.ok
           THEN /\ trace' = trace \o <<Ev("extract", r.val.v), Ev("set", r.val.v)>>
                /\ pc' = "moving"
                /\ err' = err
                /\ slit_table' = IF mode = "align"
                                 THEN Stored(slit_table, UpdateKey(size), r.val)
                                 ELSE slit_table
           ELSE /\ trace' = trace
                /\ pc' = "failed"
                /\ err' = r.err
                /\ slit_table' = slit_table
  /\ UNCHANGED <<mode, calls, table0, size, loc, win, rc, ps, motorPos>>
  /\ UNCHANGED <<errmsg, raised, tableInit, okKeys, prev>>

ExtractAndSet ==
  /\ pc = "scanned"
  /\ LET r == get_stat_loc(ps, loc)
     IN /\ fit' = r
        /\ IF r.ok
           THEN /\ trace' = trace \o <<Ev("extract", r.val.v), Ev("set", r.val.v)>>
                /\ pc' = "moving"
                /\ err' = err
           ELSE /\ trace' = trace
                /\ pc' = "failed"
                /\ err' = r.err
  /\ UNCHANGED <<mode, calls, slit_table, table0, size, loc, win, rc, ps, motorPos>>
  /\ UNCHANGED <<errmsg, raised, tableInit, okKeys, prev>>

\* the variant that stores the commanded position once the motor has arrived
MoveDone_StoreTarget ==
  /\ pc = "moving"
  /\ \E e \in SettleErrors : motorPos' = SetTarget + e
  /\ pc' = AfterMove
  /\ trace' = IF mode = "align"
              THEN trace \o <<Ev("move_done", SetTarget), Ev("write", SetTarget),
                              Ev("read", 0)>>
              ELSE Append(trace, Ev("move_done", SetTarget))
  /\ slit_table' = IF mode = "align"
                   THEN Stored(slit_table, UpdateKey(size), PyFloat(SetTarget))
                   ELSE slit_table
  /\ UNCHANGED <<mode, calls, table0, size, loc, win, rc, ps, fit, err>>
  /\ UNCHANGED <<errmsg, raised, tableInit, okKeys, prev>>

\* the motor reports motion-complete; align_slit_with_look_up goes on to read
MoveDone ==
  /\ pc = "moving"
  /\ \E e \in SettleErrors : motorPos' = SetTarget + e
  /\ pc' = AfterMove
  /\ trace' = IF mode = "align"
              THEN trace \o <<Ev("move_done", SetTarget), Ev("read", 0)>>
              ELSE Append(trace, Ev("move_done", SetTarget))
  /\ UNCHANGED <<mode, calls, slit_table, table0, size, loc, win, rc, ps, fit, err>>
  /\ UNCHANGED <<errmsg, raised, tableInit, okKeys, prev>>

\* the variant that commands the move again when it fails
MoveRaise_Retry ==
  /\ pc = "moving"
  /\ raised' = "MoveError"
  /\ trace' = Append(trace, Ev("set", SetTarget))
  /\ UNCHANGED <<pc, mode, calls, slit_table, table0, size, loc, win, rc, ps,
                 motorPos, fit, err>>
  /\ UNCHANGED <<errmsg, tableInit, okKeys, prev>>

\* the move fails: the error leaves the plan
MoveRaise ==
  /\ pc = "moving"
  /\ pc' = "failed"
  /\ raised' = "MoveError"
  /\ err' = raised'
  /\ UNCHANGED <<mode, calls, slit_table, table0, size, loc, win, rc, ps,
                 motorPos, trace, fit>>
  /\ UNCHANGED <<errmsg, tableInit, okKeys, prev>>

\* -------------------------------------------------------------------------
\* align_slit_with_look_up: the readback comes back and is stored
\* -------------------------------------------------------------------------
ReadDone ==
  /\ pc = "read"
  /\ LET temp == PyFloat(motorPos)
     IN /\ slit_table' = Stored(slit_table, UpdateKey(size), temp)
        /\ trace' = trace \o <<Ev("readback", temp.v), Ev("write", temp.v)>>
  /\ pc' = "done"
  /\ UNCHANGED <<mode, calls, table0, size, loc, win, rc, ps, motorPos, fit, err>>
  /\ okKeys' = okKeys \cup {StrIntSize(size)}
  /\ UNCHANGED <<errmsg, raised, tableInit, prev>>

ReadRaise ==
  /\ pc = "read"
  /\ pc' = "failed"
  /\ raised' = "ReadError"
  /\ err' = raised'
  /\ UNCHANGED <<mode, calls, slit_table, table0, size, loc, win, rc, ps,
                 motorPos, trace, fit>>
  /\ UNCHANGED <<errmsg, tableInit, okKeys, prev>>

\* the readback that the finished plan was sent
LastReadback ==
  LET i == CHOOSE i \in 1..Len(trace) : trace[i].op = "readback" IN trace[i].arg

\* the plan is over; the caller may start another one
Finish ==
  /\ pc \in {"done", "failed"}
  /\ pc' = "idle"
  /\ calls' = calls + 1
  /\ mode' = "none"
  /\ size' = NoSize
  /\ loc' = NoLoc
  /\ win' = NoWin
  /\ rc' = NoRc
  /\ ps' = NoPeakStats
  /\ trace' = <<>>
  /\ fit' = NoFit
  /\ err' = "none"
  /\ table0' = slit_table
  /\ UNCHANGED <<slit_table, motorPos>>
  /\ errmsg' = NoMsg
  /\ raised' = "none"
  /\ prev' = IF mode = "align" /\ pc = "done"
             THEN [ok |-> TRUE, size |-> size, readback |-> LastReadback,
                   xs |-> ps.xs]
             ELSE [NoPrev EXCEPT !.xs = ps.xs]
  /\ UNCHANGED <<tableInit, okKeys>>

Next ==
  \/ CallStepScan
  \/ CallFastScan
  \/ CallAlign
  \/ ScanSample
  \/ ScanRaise
  \/ ScanComplete
  \/ ExtractAndSet
  \/ MoveDone
  \/ MoveRaise
  \/ ReadDone
  \/ ReadRaise
  \/ Finish

Spec == Init /\ [][Next]_vars

\* -------------------------------------------------------------------------
\* get_stat_loc on its own: any collector result after a finished scan
\* -------------------------------------------------------------------------
ExtractWindow == [start |-> 0, end |-> 20000, num |-> 5]

ExtractXs == [k \in 1..MaxSamples |-> SamplePos(ExtractWindow, k)]

InitExtract ==
  /\ pc = "scanned"
  /\ mode \in {"step", "fast"}
  /\ calls = 0
  /\ slit_table = (K100 :> PyFloat(250000))
  /\ table0 = slit_table
  /\ size = NoSize
  /\ loc \in PeakPosition
  /\ win = ExtractWindow
  /\ rc = NoRc
  /\ \E i \in 1..Len(Shapes), k \in 1..Len(Shapes), j \in 1..MaxSamples :
       ps = [subscribed |-> FALSE, xs |-> ExtractXs,
             stats |-> StatsOf(Shapes[i], ExtractXs[j], ExtractXs[1]),
             derivative_stats |-> StatsOf(Shapes[k], ExtractXs[j], ExtractXs[1])]
  /\ motorPos = ExtractXs[MaxSamples]
  /\ trace = <<Ev("subscribe", 0)>>
             \o [k \in 1..MaxSamples |-> Ev("sample", ExtractXs[k])]
             \o <<Ev("scan_done", 0), Ev("unsubscribe", 0)>>
  /\ fit = NoFit
  /\ err = "none"
  /\ errmsg = NoMsg
  /\ raised = "none"
  /\ tableInit = slit_table
  /\ okKeys = {}
  /\ prev = NoPrev

NextExtract == ExtractAndSet

SpecExtract == InitExtract /\ [][NextExtract]_vars

\* -------------------------------------------------------------------------
\* Properties
\* -------------------------------------------------------------------------
Idx(op) == {i \in 1..Len(trace) : trace[i].op = op}
Count(op) == Cardinality(Idx(op))
InWrapper == mode \in {"step", "fast", "align"} /\ pc # "idle"
LastSampleAt(x) ==
  /\ Idx("sample") # {}
  /\ \E i \in Idx("sample") : (\A j \in Idx("sample") : j <= i) /\ trace[i].arg = x

\* the group named by loc is missing from the collector, or its fwhm is falsy
GroupAbsent == ~Truthy(ps[loc[1]])
FwhmFalsy == Truthy(ps[loc[1]]) /\ ~Truthy(ps[loc[1]]["fwhm"])

\* C1: the move to the fitted position is only issued after the wrapped
\* scan has completed and get_stat_loc has returned a value for that scan.
C1_MoveAfterScanAndFit ==
  \A i \in Idx("set") :
    /\ fit.ok
    /\ \E j \in Idx("scan_done"), k \in Idx("extract") :
         j < k /\ k < i /\ trace[k].arg = fit.val.v

C1_Witness ==
  /\ pc = "moving"
  /\ Count("set") = 1
  /\ Count("sample") = MaxSamples

\* C2: when the scan completed but the group has no data or its fwhm is
\* falsy, no move is issued and the motor stays where the scan left it.
C2_NoMoveOnFitFailure ==
  (InWrapper /\ Count("scan_done") = 1 /\ (GroupAbsent \/ FwhmFalsy))
    => /\ Count("set") = 0
       /\ LastSampleAt(motorPos)
       /\ pc \in {"scanned", "failed"}

C2_Witness ==
  /\ pc = "failed"
  /\ Count("scan_done") = 1
  /\ GroupAbsent
  /\ fit.err = "ValueError: check devices name"

\* C3: an invocation issues the move at most once; when scan and extraction
\* succeed it issues it exactly once, to the extracted value, and it only
\* completes after motion-complete was reported for that move.
C3_OneMoveToFit ==
  /\ Count("set") <= 1
  /\ (InWrapper /\ fit.ok) =>
        /\ Count("set") = 1
        /\ \A i \in Idx("set") : trace[i].arg = fit.val.v
  /\ (InWrapper /\ ~fit.ok) => Count("set") = 0
  /\ (InWrapper /\ pc \in {"read", "done"}) =>
        \E i \in Idx("set"), j \in Idx("move_done") :
          i < j /\ trace[j].arg = trace[i].arg

C3_Witness ==
  /\ pc = "done"
  /\ mode = "fast"
  /\ fit.ok
  /\ Count("move_done") = 1

\* C4: the collector is subscribed before the first sample and for exactly
\* the duration of the scan; a scan that raises or is cancelled still
\* unsubscribes it, and then neither the move nor the table update happens.
C4_SubscriptionScopedToScan ==
  InWrapper =>
    /\ ps.subscribed <=> pc = "scan"
    /\ \A i \in Idx("sample") : \E j \in Idx("subscribe") : j < i
    /\ \A i \in Idx("sample") : \A j \in Idx("unsubscribe") : i < j
    /\ ps.xs = [k \in 1..Count("sample") |-> trace[k + 1].arg]
    /\ Count("subscribe") <= 1
    /\ Count("unsubscribe") <= 1
    /\ (pc # "scan" /\ Count("subscribe") = 1) => Count("unsubscribe") = 1
    /\ err = "ScanError" =>
         /\ Count("set") = 0
         /\ Count("write") = 0
         /\ slit_table = table0

C4_Witness ==
  /\ pc = "failed"
  /\ err = "ScanError"
  /\ mode = "align"
  /\ Count("sample") = 2
  /\ ~ps.subscribed

\* C5: whenever str(int(size)) is a key of a valid table, align calls the
\* range calculator with centre table[str(int(size))], span size/1000*3 and
\* step size/5000, and scans with the start, end and count it returned.
C5_RangeFromTable ==
  (mode = "align" /\ pc # "idle" /\ MotorTableValid(table0)
     /\ StrIntSize(size) \in DOMAIN table0)
    => /\ rc.called
       /\ rc.cen = table0[StrIntSize(size)].v
       /\ rc.range = 15 * size.tenths
       /\ rc.size = size.tenths
       /\ cal_range_num(rc.cen, rc.range, rc.size).ok =>
            /\ win.start = cal_range_num(rc.cen, rc.range, rc.size).start
            /\ win.end = cal_range_num(rc.cen, rc.range, rc.size).end
            /\ win.num = cal_range_num(rc.cen, rc.range, rc.size).num

\* C6: after a successful align the entry at str(int(size)) is the readback
\* taken after the move.
C6_TableHoldsReadback ==
  (mode = "align" /\ pc = "done")
    => \E i \in Idx("readback") :
         /\ \E j \in Idx("move_done") : j < i
         /\ slit_table[StrIntSize(size)] = PyFloat(trace[i].arg)

\* C7: a failed align leaves the table with the keys and values it had when
\* align was called.
C7_FailureKeepsTable ==
  (mode = "align" /\ pc = "failed") => slit_table = table0

C7_Witness ==
  /\ mode = "align"
  /\ pc = "failed"
  /\ err = "MoveError"
  /\ Count("set") = 1

\* C8: with a table that fails validation, or a size whose str(int(size)) is
\* not a key, align fails with the matching error before any scan step or
\* move is emitted.
C8_EagerValidation ==
  /\ (mode = "align" /\ pc # "idle" /\ ~MotorTableValid(table0)) =>
        /\ pc = "failed"
        /\ err = "ValidationError"
        /\ trace = <<>>
  /\ (mode = "align" /\ pc # "idle" /\ MotorTableValid(table0)
        /\ StrIntSize(size) \notin DOMAIN table0) =>
        /\ pc = "failed"
        /\ err = "ValueError: size not in table"
        /\ trace = <<>>

C8_Witness ==
  /\ mode = "align"
  /\ pc = "failed"
  /\ err = "ValidationError"
  /\ StrIntSize(size) \in DOMAIN table0

\* C9: the table is written only after the move reported motion-complete and
\* the readback was read: scan, fit, move, readback, table update, in order,
\* and it is written at most once.
C9_WriteAfterMoveAndReadback ==
  mode = "align" =>
    /\ Count("write") <= 1
    /\ slit_table # table0 => Count("write") = 1
    /\ \A w \in Idx("write") :
         \E a \in Idx("scan_done"), b \in Idx("extract"), c \in Idx("set"),
            d \in Idx("move_done"), e \in Idx("readback") :
           a < b /\ b < c /\ c < d /\ d < e /\ e < w

C9_Witness ==
  /\ mode = "align"
  /\ pc = "done"
  /\ Count("write") = 1
  /\ slit_table # table0

\* C10: get_stat_loc raises its fit failure when the group has no record and
\* when the record's fwhm is falsy (0, None, empty), and returns no value.
C10_FitFailure ==
  fit # NoFit =>
    /\ GroupAbsent =>
         /\ ~fit.ok
         /\ fit.err = "ValueError: check devices name"
         /\ fit.val = None
    /\ FwhmFalsy =>
         /\ ~fit.ok
         /\ fit.err = "ValueError: no peak within scan range"
         /\ fit.val = None

C10_Witness ==
  /\ fit # NoFit
  /\ FwhmFalsy
  /\ ps[loc[1]]["fwhm"] = PyTuple(<<>>)
  /\ Truthy(ps[loc[1]][loc[2]])

\* the value get_stat_loc looks at, when the group is there and has a peak
FieldUsable == Truthy(ps[loc[1]]) /\ Truthy(ps[loc[1]]["fwhm"])
FieldValue == ps[loc[1]][loc[2]]
FitFailureKinds ==
  {"ValueError: check devices name", "ValueError: no peak within scan range"}

\* C11: with the group present and a truthy fwhm, get_stat_loc returns the
\* field itself when it is a scalar of any numeric kind, and its first
\* element when it is a non-empty sequence.
C11_ScalarOrFirst ==
  (fit # NoFit /\ FieldUsable) =>
    /\ FieldValue.kind \in {"float", "int"} =>
         (fit.ok /\ fit.val = FieldValue)
    /\ (FieldValue.kind = "tuple" /\ Len(FieldValue.items) > 0) =>
         (fit.ok /\ fit.val = FieldValue.items[1])

\* C12: with the group present and a truthy fwhm, an empty sequence in the
\* field makes get_stat_loc fail with the same kind of failure as missing
\* data or an unresolved peak.
C12_EmptyIsFitFailure ==
  (fit # NoFit /\ FieldUsable /\ FieldValue.kind = "tuple"
     /\ Len(FieldValue.items) = 0)
    => (~fit.ok /\ fit.err \in FitFailureKinds)

\* C13: when str(int(size)) is not a key, the message of the error that
\* align raises lists every key of the table.
C13_MessageListsKeys ==
  (mode = "align" /\ err = "ValueError: size not in table")
    => (DOMAIN table0 \subseteq errmsg.keys)

\* the positions at which this invocation's scan emitted a sample
SamplesNow == {trace[i].arg : i \in Idx("sample")}

\* C14: an error of the wrapped scan or of the move is the error the caller
\* sees, and nothing is retried: one scan and at most one move per invocation.
C14_ErrorsPropagateNoRetry ==
  InWrapper =>
    /\ raised # "none" => (pc = "failed" /\ err = raised)
    /\ Count("subscribe") <= 1
    /\ Count("scan_done") <= 1
    /\ Count("sample") <= MaxSamples
    /\ \A i \in Idx("sample") : trace[i].arg = SamplePos(win, i - 1)
    /\ Count("set") <= 1
    /\ raised = "ScanError" => (Count("scan_done") = 0 /\ Count("set") = 0)
    /\ raised = "MoveError" => (Count("set") = 1 /\ Count("move_done") = 0)

C14_Witness ==
  /\ InWrapper
  /\ pc = "failed"
  /\ raised = "MoveError"
  /\ err = "MoveError"

\* a key that is the decimal text of an integer, without sign or leading zero
IsCanonicalKey(k) ==
  /\ Len(k) > 0
  /\ \A i \in 1..Len(k) : k[i] \in {DigitChars[j] : j \in 1..10}
  /\ (Len(k) > 1 => k[1] # "0")

CanonicalAtStart == \A k \in DOMAIN tableInit : IsCanonicalKey(k)

\* C16: from a table with canonical keys, any sequence of align calls keeps
\* the key set, and only entries at str(int(size)) of successful calls change.
C16_KeySetStable ==
  CanonicalAtStart =>
    /\ DOMAIN slit_table = DOMAIN tableInit
    /\ \A k \in DOMAIN tableInit :
         slit_table[k] # tableInit[k] => k \in okKeys

C16_Witness ==
  /\ CanonicalAtStart
  /\ calls = 1
  /\ mode = "align"
  /\ pc = "done"
  /\ prev.ok
  /\ prev.size # size
  /\ \A k \in DOMAIN tableInit : slit_table[k] # tableInit[k]

\* C17: of two consecutive successful align calls on the same table with the
\* same size, the second scans around the readback the first one stored.
C17_SecondSeededByFirst ==
  (mode = "align" /\ pc = "done" /\ prev.ok /\ prev.size.tenths = size.tenths)
    => (rc.called /\ rc.cen = prev.readback)

\* C18: the collector of an invocation is new: it holds the samples of this
\* invocation's scan only, and the extracted value is one of them.
C18_FreshCollector ==
  (InWrapper /\ trace # <<>>) =>
    /\ \A k \in 1..Len(ps.xs) : ps.xs[k] \in SamplesNow
    /\ Len(ps.xs) = Count("sample")
    /\ fit.ok => fit.val.v \in SamplesNow

C18_Witness ==
  /\ InWrapper
  /\ calls = 1
  /\ fit.ok
  /\ prev.xs # <<>>
  /\ \A k \in 1..Len(prev.xs) : prev.xs[k] # fit.val.v

====
